---- MODULE Spec2Model ----
(***************************************************************************)
(* State-machine model of dd::MLLib (mllibstrategy.h): the measurement     *)
(* stores and their mutexes, the training flag, the move constructor and   *)
(* clear_full, exercised by a bounded set of threads that call the         *)
(* member functions in any interleaving.                                   *)
(***************************************************************************)
EXTENDS Integers, Sequences, FiniteSets, TLC

\* ---------------------------------------------------------------- bounds
\* the threads that hold a reference to the instance
NThreads == 2
\* the most add_meas_per_iter calls between two clears
MaxHist == 3
\* the largest magnitude of a code returned by fileops::clear_directory
MaxCode == 2

Threads == 1..NThreads
\* measure names passed by the callers
Names == {"loss", "acc"}
\* measure values (doubles) passed by the callers
Values == {1, 2}
\* std::numeric_limits<double>::quiet_NaN()
NaN == 0
\* std::unordered_map::end()
End == "end"
\* std::mutex, unlocked
Free == 0
\* files that may sit in the model repository
Files == {"a", "b", "c"}
\* repository paths a model descriptor may carry
Repos == {"/models/m1", "/models/m2"}
\* library names the backends give themselves
LibNames == {"caffe", "xgboost"}

EmptyMap == [n \in {} |-> NaN]

\* a call that raised nothing
NoExc == [type |-> "none"]

\* ----------------------------------------------------------------- state
VARIABLES
  _meas,                 \* std::unordered_map<std::string,double>
  _meas_per_iter,        \* std::unordered_map<std::string,std::vector<double>>
  _tjob_running,         \* std::atomic<bool>
  _has_train, _has_predict, _online, _libname,
  _meas_mutex,           \* holder of the mutex around current measures, or Free
  _meas_per_iter_mutex,  \* holder of the mutex over measures history, or Free
  _mlmodel_repo,         \* _mlmodel._repo, the path of the model repository
  repo_dir,              \* whether _mlmodel._repo can be opened as a directory
  repo_files,            \* the files in _mlmodel._repo
  repo_stuck,            \* the files of the repository whose removal fails
  moved,                 \* the instance built by MLLib(MLLib&&), once built
  pc,                    \* per thread: position in the member function it runs
  meas_arg, l_arg,       \* per thread: the arguments meas and l
  hit,                   \* per thread: the iterator returned by find
  iter,                  \* per thread: the names a collect loop has yet to visit
  out,                   \* per thread: the local APIData (meas, meas_hist)
  ad,                    \* per thread: the caller's APIData
  ret,                   \* per thread: the value get_meas returns
  err,                   \* per thread: the code clear_directory returned
  exc,                   \* per thread: the exception the last call raised
  written,               \* ghost: per name, the values add_meas was called with
  last_set,              \* ghost: per name, the value of the last add_meas that took the lock
  applog,                \* ghost: per thread, its add_meas_per_iter calls since the last clear
  cleared,               \* ghost: whether clear_all_meas_per_iter has run
  overlapped,            \* ghost: whether two train calls were ever in flight together
  files_at_call          \* ghost: per thread, the repository's files when it called clear_full

instVars == <<_meas, _meas_per_iter, _tjob_running, _has_train, _has_predict,
              _online, _libname, _meas_mutex, _meas_per_iter_mutex>>
repoVars == <<_mlmodel_repo, repo_dir, repo_files, repo_stuck>>
localVars == <<pc, meas_arg, l_arg, hit, iter, out, ad, ret, err, exc>>
histVars == <<written, last_set, applog, cleared, overlapped, files_at_call>>
vars == <<instVars, repoVars, moved, localVars, histVars>>

\* ------------------------------------------------------- data structures
\* std::unordered_map::find
Find(m, k) == IF k \in DOMAIN m THEN k ELSE End

\* (*hit).second = v
Assign(m, k, v) == [m EXCEPT ![k] = v]

\* std::unordered_map::insert: no effect when the key is present
Insert(m, k, v) ==
  IF k \in DOMAIN m THEN m
  ELSE [x \in DOMAIN m \cup {k} |-> IF x = k THEN v ELSE m[x]]

\* a lock_guard that does not wait for the mutex
CanLockNoWait(mutex) == TRUE

\* one lock over both stores: a lock_guard waits while either mutex is held
CanLockGlobal(mutex) == _meas_mutex = Free /\ _meas_per_iter_mutex = Free

\* std::mutex as seen by lock_guard's constructor: it blocks until unlocked
CanLock(mutex) == mutex = Free

\* APIData::add(key, value)
ApiAdd(a, key, val) ==
  [x \in DOMAIN a \cup {key} |-> IF x = key THEN val ELSE a[x]]

\* what a thread holds while it runs no member function
Idle(t) == pc[t] = "idle"

\* ------------------------------------------------------------------ Init
\* the stores, the flag and the mutexes as MLLib(const TMLModel&) leaves them
InitStores ==
  /\ _meas = EmptyMap
  /\ _meas_per_iter = EmptyMap
  /\ _tjob_running = FALSE
  /\ _meas_mutex = Free
  /\ _meas_per_iter_mutex = Free
  /\ moved = [built |-> FALSE]

\* initializers that switch every capability on
InitFlagsAllOn ==
  /\ _has_train = TRUE
  /\ _has_predict = TRUE
  /\ _online = TRUE
  /\ _libname = ""

\* the default member initializers of the capability flags and the name
InitFlags ==
  /\ _has_train = FALSE
  /\ _has_predict = TRUE
  /\ _online = FALSE
  /\ _libname = ""

\* a backend's constructor has set the capability flags and the name
InitBackendFlags ==
  /\ _has_train \in BOOLEAN
  /\ _has_predict \in BOOLEAN
  /\ _online \in BOOLEAN
  /\ _libname \in LibNames

\* a repository that opens and holds every file
InitRepo ==
  /\ _mlmodel_repo = "/models/m1"
  /\ repo_dir = TRUE
  /\ repo_files = Files
  /\ repo_stuck = {}

\* a repository that opens or not, holds every file, and lets go of all or not
InitSomeRepo ==
  /\ _mlmodel_repo = "/models/m1"
  /\ repo_dir \in BOOLEAN
  /\ repo_files = Files
  /\ repo_stuck \in {{}, {"a"}}

\* any repository: a path, openable or not, any files, any of them not removable
InitAnyRepo ==
  /\ _mlmodel_repo \in Repos
  /\ repo_dir \in BOOLEAN
  /\ repo_files \in SUBSET Files
  /\ repo_stuck \in SUBSET repo_files

InitThreads ==
  /\ pc = [t \in Threads |-> "idle"]
  /\ meas_arg = [t \in Threads |-> End]
  /\ l_arg = [t \in Threads |-> NaN]
  /\ hit = [t \in Threads |-> End]
  /\ iter = [t \in Threads |-> {}]
  /\ out = [t \in Threads |-> EmptyMap]
  /\ ad = [t \in Threads |-> EmptyMap]
  /\ ret = [t \in Threads |-> NaN]
  /\ err = [t \in Threads |-> 0]
  /\ exc = [t \in Threads |-> NoExc]

InitHistory ==
  /\ written = [n \in Names |-> {}]
  /\ last_set = [n \in Names |-> NaN]
  /\ applog = [t \in Threads |-> <<>>]
  /\ cleared = FALSE
  /\ overlapped = FALSE
  /\ files_at_call = [t \in Threads |-> {}]

\* MLLib(const TMLModel&): a freshly constructed instance
Init == InitStores /\ InitFlags /\ InitRepo /\ InitThreads /\ InitHistory

\* an instance constructed by a backend, which sets its flags and name
InitBackend == InitStores /\ InitBackendFlags /\ InitRepo /\ InitThreads /\ InitHistory

\* a freshly constructed instance over a repository that may fail to clear
InitSerial == InitStores /\ InitFlags /\ InitSomeRepo /\ InitThreads /\ InitHistory

\* a freshly constructed instance over any repository
InitClear == InitStores /\ InitFlags /\ InitAnyRepo /\ InitThreads /\ InitHistory

\* a member function returns: its locals and the caller's output object go out of scope
Return(t) ==
  /\ pc' = [pc EXCEPT ![t] = "idle"]
  /\ meas_arg' = [meas_arg EXCEPT ![t] = End]
  /\ l_arg' = [l_arg EXCEPT ![t] = NaN]
  /\ hit' = [hit EXCEPT ![t] = End]
  /\ iter' = [iter EXCEPT ![t] = {}]
  /\ out' = [out EXCEPT ![t] = EmptyMap]
  /\ ad' = [ad EXCEPT ![t] = EmptyMap]
  /\ ret' = [ret EXCEPT ![t] = NaN]
  /\ err' = [err EXCEPT ![t] = 0]

\* a member function is called; the exception of the previous call is handled
Call(t, label, m, l) ==
  /\ Idle(t)
  /\ pc' = [pc EXCEPT ![t] = label]
  /\ meas_arg' = [meas_arg EXCEPT ![t] = m]
  /\ l_arg' = [l_arg EXCEPT ![t] = l]
  /\ exc' = [exc EXCEPT ![t] = NoExc]
  /\ UNCHANGED <<hit, iter, out, ad, ret, err>>

\* ------------------------------------------------- current measures: add_meas
AddMeasCall(t, m, l) ==
  /\ Call(t, "am_lock", m, l)
  /\ written' = [written EXCEPT ![m] = @ \cup {l}]
  /\ UNCHANGED <<instVars, repoVars, moved, last_set, applog, cleared, overlapped, files_at_call>>

\* lock_guard lock(_meas_mutex); auto hit = _meas.find(meas)
AddMeasLock(t) ==
  /\ pc[t] = "am_lock"
  /\ CanLock(_meas_mutex)
  /\ _meas_mutex' = t
  /\ hit' = [hit EXCEPT ![t] = Find(_meas, meas_arg[t])]
  /\ pc' = [pc EXCEPT ![t] = "am_write"]
  /\ last_set' = [last_set EXCEPT ![meas_arg[t]] = l_arg[t]]
  /\ UNCHANGED <<_meas, _meas_per_iter, _tjob_running, _has_train, _has_predict,
                 _online, _libname, _meas_per_iter_mutex, repoVars, moved,
                 meas_arg, l_arg, iter, out, ad, ret, err, exc,
                 written, applog, cleared, overlapped, files_at_call>>

\* a store that adds the value to the one already stored
AddMeasStoreAccumulate(m, h, k, v) ==
  IF h # End THEN Assign(m, h, m[h] + v) ELSE Insert(m, k, v)

\* a store that only inserts: the value of a name already present stays
AddMeasStoreInsertOnly(m, h, k, v) == Insert(m, k, v)

\* the store of add_meas: assignment through the iterator, or insert
AddMeasStore(m, h, k, v) ==
  IF h # End THEN Assign(m, h, v) ELSE Insert(m, k, v)

\* the store, then the lock_guard goes out of scope
AddMeasWrite(t) ==
  /\ pc[t] = "am_write"
  /\ _meas' = AddMeasStore(_meas, hit[t], meas_arg[t], l_arg[t])
  /\ _meas_mutex' = Free
  /\ Return(t)
  /\ UNCHANGED <<_meas_per_iter, _tjob_running, _has_train, _has_predict,
                 _online, _libname, _meas_per_iter_mutex, repoVars, moved,
                 exc, histVars>>

\* ------------------------------------------------- current measures: get_meas
GetMeasCall(t, m) ==
  /\ Call(t, "gm_lock", m, NaN)
  /\ UNCHANGED <<instVars, repoVars, moved, histVars>>

\* a get that answers a number for a name that is absent
GetMeasValueAny(m, h) == IF h # End THEN m[h] ELSE 1

\* the value get_meas returns for the iterator h
GetMeasValue(m, h) == IF h # End THEN m[h] ELSE NaN

\* lock_guard lock(_meas_mutex); find; the return value is read
GetMeasLock(t) ==
  /\ pc[t] = "gm_lock"
  /\ CanLock(_meas_mutex)
  /\ _meas_mutex' = t
  /\ hit' = [hit EXCEPT ![t] = Find(_meas, meas_arg[t])]
  /\ ret' = [ret EXCEPT ![t] = GetMeasValue(_meas, Find(_meas, meas_arg[t]))]
  /\ pc' = [pc EXCEPT ![t] = "gm_ret"]
  /\ UNCHANGED <<_meas, _meas_per_iter, _tjob_running, _has_train, _has_predict,
                 _online, _libname, _meas_per_iter_mutex, repoVars, moved,
                 meas_arg, l_arg, iter, out, ad, err, exc, histVars>>

\* the lock_guard goes out of scope and the value is handed to the caller
GetMeasReturn(t) ==
  /\ pc[t] = "gm_ret"
  /\ _meas_mutex' = Free
  /\ Return(t)
  /\ UNCHANGED <<_meas, _meas_per_iter, _tjob_running, _has_train, _has_predict,
                 _online, _libname, _meas_per_iter_mutex, repoVars, moved,
                 exc, histVars>>

\* ----------------------------------------- current measures: collect_measures
CollectMeasCall(t) ==
  /\ Call(t, "cm_lock", End, NaN)
  /\ UNCHANGED <<instVars, repoVars, moved, histVars>>

\* lock_guard lock(_meas_mutex); auto hit = _meas.begin()
CollectMeasLock(t) ==
  /\ pc[t] = "cm_lock"
  /\ CanLock(_meas_mutex)
  /\ _meas_mutex' = t
  /\ iter' = [iter EXCEPT ![t] = DOMAIN _meas]
  /\ pc' = [pc EXCEPT ![t] = "cm_loop"]
  /\ UNCHANGED <<_meas, _meas_per_iter, _tjob_running, _has_train, _has_predict,
                 _online, _libname, _meas_per_iter_mutex, repoVars, moved,
                 meas_arg, l_arg, hit, out, ad, ret, err, exc, histVars>>

\* one turn of the while loop (the map's iteration order is unspecified), or
\* its exit and ad.add("measure",meas)
CollectMeasLoop(t) ==
  /\ pc[t] = "cm_loop"
  /\ \/ /\ iter[t] # {}
        /\ \E n \in iter[t] :
             /\ out' = [out EXCEPT ![t] = ApiAdd(@, n, _meas[n])]
             /\ iter' = [iter EXCEPT ![t] = @ \ {n}]
        /\ UNCHANGED <<pc, ad>>
     \/ /\ iter[t] = {}
        /\ ad' = [ad EXCEPT ![t] = ApiAdd(@, "measure", out[t])]
        /\ pc' = [pc EXCEPT ![t] = "cm_ret"]
        /\ UNCHANGED <<iter, out>>
  /\ UNCHANGED <<instVars, repoVars, moved, meas_arg, l_arg, hit, ret,
                 err, exc, histVars>>

\* a return that leaves the mutex locked
CollectMeasReturnKeepsLock(t) ==
  /\ pc[t] = "cm_ret"
  /\ Return(t)
  /\ UNCHANGED <<instVars, repoVars, moved, exc, histVars>>

\* the lock_guard goes out of scope
CollectMeasReturn(t) ==
  /\ pc[t] = "cm_ret"
  /\ _meas_mutex' = Free
  /\ Return(t)
  /\ UNCHANGED <<_meas, _meas_per_iter, _tjob_running, _has_train, _has_predict,
                 _online, _libname, _meas_per_iter_mutex, repoVars, moved,
                 exc, histVars>>

\* --------------------------------------- measures history: add_meas_per_iter
\* the number of add_meas_per_iter calls made since the last clear; MaxHist
\* caps it, the code itself has no cap
Logged == LET RECURSIVE Sum(_)
              Sum(S) == IF S = {} THEN 0
                        ELSE LET t == CHOOSE x \in S : TRUE
                             IN Len(applog[t]) + Sum(S \ {t})
          IN Sum(Threads)

AddMeasPerIterCall(t, m, l) ==
  /\ Logged < MaxHist
  /\ Call(t, "ap_lock", m, l)
  /\ applog' = [applog EXCEPT ![t] = Append(@, <<m, l>>)]
  /\ UNCHANGED <<instVars, repoVars, moved, written, last_set, cleared, overlapped, files_at_call>>

\* lock_guard lock(_meas_per_iter_mutex); auto hit = _meas_per_iter.find(meas)
AddMeasPerIterLock(t) ==
  /\ pc[t] = "ap_lock"
  /\ CanLock(_meas_per_iter_mutex)
  /\ _meas_per_iter_mutex' = t
  /\ hit' = [hit EXCEPT ![t] = Find(_meas_per_iter, meas_arg[t])]
  /\ pc' = [pc EXCEPT ![t] = "ap_push"]
  /\ UNCHANGED <<_meas, _meas_per_iter, _tjob_running, _has_train, _has_predict,
                 _online, _libname, _meas_mutex, repoVars, moved,
                 meas_arg, l_arg, iter, out, ad, ret, err, exc, histVars>>

\* a push at the front of the vector
PushFront(m, k, v) == [m EXCEPT ![k] = <<v>> \o @]

\* (*hit).second.push_back(l)
PushBack(m, k, v) == [m EXCEPT ![k] = Append(@, v)]

\* a store that replaces the vector of a name already present
AddMeasPerIterReplace(m, h, k, v) ==
  IF h # End THEN Assign(m, h, <<v>>) ELSE Insert(m, k, <<v>>)

\* the store of add_meas_per_iter: push_back through the iterator, or insert of {l}
AddMeasPerIterStore(m, h, k, v) ==
  IF h # End THEN PushBack(m, h, v) ELSE Insert(m, k, <<v>>)

\* the store, then the lock_guard goes out of scope
AddMeasPerIterPush(t) ==
  /\ pc[t] = "ap_push"
  /\ _meas_per_iter' = AddMeasPerIterStore(_meas_per_iter, hit[t], meas_arg[t], l_arg[t])
  /\ _meas_per_iter_mutex' = Free
  /\ Return(t)
  /\ UNCHANGED <<_meas, _tjob_running, _has_train, _has_predict,
                 _online, _libname, _meas_mutex, repoVars, moved,
                 exc, histVars>>

\* --------------------------------- measures history: clear_all_meas_per_iter
ClearAllCall(t) ==
  /\ Call(t, "cl_lock", End, NaN)
  /\ UNCHANGED <<instVars, repoVars, moved, histVars>>

\* lock_guard lock(_meas_per_iter_mutex)
ClearAllLock(t) ==
  /\ pc[t] = "cl_lock"
  /\ CanLock(_meas_per_iter_mutex)
  /\ _meas_per_iter_mutex' = t
  /\ pc' = [pc EXCEPT ![t] = "cl_clear"]
  /\ UNCHANGED <<_meas, _meas_per_iter, _tjob_running, _has_train, _has_predict,
                 _online, _libname, _meas_mutex, repoVars, moved,
                 meas_arg, l_arg, hit, iter, out, ad, ret, err, exc, histVars>>

\* whether thread t has called add_meas_per_iter and not yet stored its value
Pending(t) == pc[t] \in {"ap_lock", "ap_push"}

\* a clear that leaves one name in place
ClearButOne(m) ==
  IF DOMAIN m = {} THEN m
  ELSE LET k == CHOOSE x \in DOMAIN m : TRUE IN [x \in {k} |-> m[x]]

\* std::unordered_map::clear
Clear(m) == EmptyMap

\* a clear of the history that clears current measures too
ClearAllClearBoth(t) ==
  /\ pc[t] = "cl_clear"
  /\ _meas_per_iter' = Clear(_meas_per_iter)
  /\ _meas' = Clear(_meas)
  /\ _meas_per_iter_mutex' = Free
  /\ Return(t)
  /\ applog' = [u \in Threads |->
                  IF Pending(u) THEN <<applog[u][Len(applog[u])]>> ELSE <<>>]
  /\ cleared' = TRUE
  /\ UNCHANGED <<_tjob_running, _has_train, _has_predict,
                 _online, _libname, _meas_mutex, repoVars, moved,
                 exc, written, last_set, overlapped, files_at_call>>

\* _meas_per_iter.clear(), then the lock_guard goes out of scope
ClearAllClear(t) ==
  /\ pc[t] = "cl_clear"
  /\ _meas_per_iter' = Clear(_meas_per_iter)
  /\ _meas_per_iter_mutex' = Free
  /\ Return(t)
  /\ applog' = [u \in Threads |->
                  IF Pending(u) THEN <<applog[u][Len(applog[u])]>> ELSE <<>>]
  /\ cleared' = TRUE
  /\ UNCHANGED <<_meas, _tjob_running, _has_train, _has_predict,
                 _online, _libname, _meas_mutex, repoVars, moved,
                 exc, written, last_set, overlapped, files_at_call>>

\* -------------------------------- measures history: collect_measures_history
CollectHistCall(t) ==
  /\ Call(t, "ch_lock", End, NaN)
  /\ UNCHANGED <<instVars, repoVars, moved, histVars>>

\* lock_guard lock(_meas_per_iter_mutex); auto hit = _meas_per_iter.begin()
CollectHistLock(t) ==
  /\ pc[t] = "ch_lock"
  /\ CanLock(_meas_per_iter_mutex)
  /\ _meas_per_iter_mutex' = t
  /\ iter' = [iter EXCEPT ![t] = DOMAIN _meas_per_iter]
  /\ pc' = [pc EXCEPT ![t] = "ch_loop"]
  /\ UNCHANGED <<_meas, _meas_per_iter, _tjob_running, _has_train, _has_predict,
                 _online, _libname, _meas_mutex, repoVars, moved,
                 meas_arg, l_arg, hit, out, ad, ret, err, exc, histVars>>

\* a key that leaves the suffix out
HistKeyNoSuffix(n) == n

\* (*hit).first+"_hist"
HistKey(n) == n \o "_hist"

\* one turn of the while loop (the map's iteration order is unspecified), or
\* its exit and ad.add("measure_hist",meas_hist)
CollectHistLoop(t) ==
  /\ pc[t] = "ch_loop"
  /\ \/ /\ iter[t] # {}
        /\ \E n \in iter[t] :
             /\ out' = [out EXCEPT ![t] = ApiAdd(@, HistKey(n), _meas_per_iter[n])]
             /\ iter' = [iter EXCEPT ![t] = @ \ {n}]
        /\ UNCHANGED <<pc, ad>>
     \/ /\ iter[t] = {}
        /\ ad' = [ad EXCEPT ![t] = ApiAdd(@, "measure_hist", out[t])]
        /\ pc' = [pc EXCEPT ![t] = "ch_ret"]
        /\ UNCHANGED <<iter, out>>
  /\ UNCHANGED <<instVars, repoVars, moved, meas_arg, l_arg, hit, ret,
                 err, exc, histVars>>

\* the lock_guard goes out of scope
CollectHistReturn(t) ==
  /\ pc[t] = "ch_ret"
  /\ _meas_per_iter_mutex' = Free
  /\ Return(t)
  /\ UNCHANGED <<_meas, _meas_per_iter, _tjob_running, _has_train, _has_predict,
                 _online, _libname, _meas_mutex, repoVars, moved,
                 exc, histVars>>

\* ------------------------------------------------------------ clear_full
\* fileops::clear_directory(repo): the code it returns
ClearDirectoryCodes(openable, left) ==
  IF ~openable THEN 1..MaxCode
  ELSE IF left # {} THEN {-c : c \in 1..MaxCode}
  ELSE {0}

\* fileops::clear_directory(repo): the files left in the directory
ClearDirectoryLeft(openable, files, stuck) ==
  IF ~openable THEN files ELSE files \cap stuck

ClearFullCall(t) ==
  /\ Call(t, "cf_clear", End, NaN)
  /\ files_at_call' = [files_at_call EXCEPT ![t] = repo_files]
  /\ UNCHANGED <<instVars, repoVars, moved, written, last_set, applog, cleared,
                 overlapped>>

\* int err = fileops::clear_directory(_mlmodel._repo)
ClearFullClear(t) ==
  /\ pc[t] = "cf_clear"
  /\ repo_files' = ClearDirectoryLeft(repo_dir, repo_files, repo_stuck)
  /\ \E c \in ClearDirectoryCodes(repo_dir, repo_files') :
       err' = [err EXCEPT ![t] = c]
  /\ pc' = [pc EXCEPT ![t] = "cf_check"]
  /\ UNCHANGED <<instVars, _mlmodel_repo, repo_dir, repo_stuck, moved, meas_arg,
                 l_arg, hit, iter, out, ad, ret, exc, histVars>>

\* an outcome that lets a negative code through
ClearFullOutcomeNoInternal(e, repo) ==
  IF e > 0
  THEN [type |-> "MLLibBadParamException",
        what |-> <<"Failed opening directory ", repo, " for deleting files within">>]
  ELSE NoExc

\* an outcome whose messages do not name the repository
ClearFullOutcomeNoPath(e, repo) ==
  IF e > 0
  THEN [type |-> "MLLibBadParamException",
        what |-> <<"Failed opening directory ", " for deleting files within">>]
  ELSE IF e < 0
  THEN [type |-> "MLLibInternalException",
        what |-> <<"Failed deleting all files in directory ">>]
  ELSE NoExc

\* what clear_full does with the code: the exception it throws, if any; what()
\* is the concatenation of the listed pieces
ClearFullOutcome(e, repo) ==
  IF e > 0
  THEN [type |-> "MLLibBadParamException",
        what |-> <<"Failed opening directory ", repo, " for deleting files within">>]
  ELSE IF e < 0
  THEN [type |-> "MLLibInternalException",
        what |-> <<"Failed deleting all files in directory ", repo>>]
  ELSE NoExc

\* a clear_full that empties the measures history as well
ClearFullCheckWipes(t) ==
  /\ pc[t] = "cf_check"
  /\ exc' = [exc EXCEPT ![t] = ClearFullOutcome(err[t], _mlmodel_repo)]
  /\ pc' = [pc EXCEPT ![t] = "cf_done"]
  /\ _meas_per_iter' = Clear(_meas_per_iter)
  /\ UNCHANGED <<_meas, _tjob_running, _has_train, _has_predict, _online,
                 _libname, _meas_mutex, _meas_per_iter_mutex, repoVars, moved,
                 meas_arg, l_arg, hit, iter, out, ad, ret, err, histVars>>

\* if (err > 0) throw ...; else if (err < 0) throw ...;
ClearFullCheck(t) ==
  /\ pc[t] = "cf_check"
  /\ exc' = [exc EXCEPT ![t] = ClearFullOutcome(err[t], _mlmodel_repo)]
  /\ pc' = [pc EXCEPT ![t] = "cf_done"]
  /\ UNCHANGED <<instVars, repoVars, moved, meas_arg, l_arg, hit, iter, out,
                 ad, ret, err, histVars>>

\* clear_full returns, or its exception reaches the caller
ClearFullReturn(t) ==
  /\ pc[t] = "cf_done"
  /\ Return(t)
  /\ UNCHANGED <<instVars, repoVars, moved, exc, histVars>>

\* --------------------------------------------------------- train, predict
\* the flag once a train invocation has started
TrainStarts(running) == TRUE

\* a train that leaves the flag as it found it
TrainEndsKeepsFlag(running) == running

\* the flag once a train invocation has ended, however it ended
TrainEnds(running) == FALSE

\* the ways a train invocation ends: 0, nonzero, or a propagated exception
TrainOutcomes == {"ok", "failed", "thrown"}

\* int train(const APIData &ad, APIData &out): the invocation starts
TrainCall(t) ==
  /\ Call(t, "tr_run", End, NaN)
  /\ _tjob_running' = TrainStarts(_tjob_running)
  /\ overlapped' = (overlapped \/ \E u \in Threads : pc[u] = "tr_run")
  /\ UNCHANGED <<_meas, _meas_per_iter, _has_train, _has_predict, _online,
                 _libname, _meas_mutex, _meas_per_iter_mutex, repoVars, moved,
                 written, last_set, applog, cleared, files_at_call>>

\* the invocation ends
TrainReturn(t, o) ==
  /\ pc[t] = "tr_run"
  /\ _tjob_running' = TrainEnds(_tjob_running)
  /\ Return(t)
  /\ exc' = [exc EXCEPT ![t] = IF o = "thrown" THEN [type |-> "exception"]
                               ELSE IF o = "failed" THEN [type |-> "nonzero"]
                               ELSE NoExc]
  /\ UNCHANGED <<_meas, _meas_per_iter, _has_train, _has_predict, _online,
                 _libname, _meas_mutex, _meas_per_iter_mutex, repoVars, moved,
                 histVars>>

\* a gate that admits every predict
PredictAllowedAlways(online, running) == TRUE

\* the dispatch policy: a backend that is not online rejects predict calls
\* while training is running
PredictAllowed(online, running) == online \/ ~running

\* int predict(const APIData &ad, APIData &out): dispatched, admitted or rejected
PredictCall(t) ==
  /\ Call(t, IF PredictAllowed(_online, _tjob_running) THEN "pr_run" ELSE "pr_denied",
          End, NaN)
  /\ UNCHANGED <<instVars, repoVars, moved, histVars>>

\* the admitted predict returns
PredictReturn(t) ==
  /\ pc[t] = "pr_run"
  /\ Return(t)
  /\ UNCHANGED <<instVars, repoVars, moved, exc, histVars>>

\* the rejection reaches the caller
PredictDenied(t) ==
  /\ pc[t] = "pr_denied"
  /\ Return(t)
  /\ exc' = [exc EXCEPT ![t] = [type |-> "rejected"]]
  /\ UNCHANGED <<instVars, repoVars, moved, histVars>>

\* ------------------------------------------------------ MLLib(MLLib &&mll)
\* every content current measures may have
MeasMaps == UNION {[D -> Values] : D \in SUBSET Names}

\* the source instance, as the members a move can transfer
Source ==
  [built |-> TRUE, meas |-> _meas, meas_per_iter |-> _meas_per_iter,
   tjob_running |-> _tjob_running, has_train |-> _has_train,
   has_predict |-> _has_predict, online |-> _online, libname |-> _libname]

\* the constructor is entered: _inputc, _outputc and _mlmodel are copied
MoveCall(t) ==
  /\ Call(t, "mv_meas", End, NaN)
  /\ UNCHANGED <<instVars, repoVars, moved, histVars>>

\* _meas(mll._meas): the map is read with no lock held; read while add_meas
\* is storing into it, the copy may hold anything
MoveMeas(t) ==
  /\ pc[t] = "mv_meas"
  /\ \E m \in (IF \E u \in Threads \ {t} : pc[u] = "am_write"
               THEN MeasMaps ELSE {_meas}) :
       out' = [out EXCEPT ![t] = m]
  /\ pc' = [pc EXCEPT ![t] = "mv_flag"]
  /\ UNCHANGED <<instVars, repoVars, moved, meas_arg, l_arg, hit, iter, ad,
                 ret, err, exc, histVars>>

\* the instance the constructor builds from the copied measures and the loaded
\* flag: the members its initializer list leaves out are default-initialized
MovedInstance(m, running) ==
  [built |-> TRUE, meas |-> m, meas_per_iter |-> EmptyMap,
   tjob_running |-> running, has_train |-> FALSE, has_predict |-> TRUE,
   online |-> FALSE, libname |-> ""]

\* a load of the flag that waits for both measurement mutexes
MoveFlagLocked(t) ==
  /\ pc[t] = "mv_flag"
  /\ CanLock(_meas_mutex)
  /\ CanLock(_meas_per_iter_mutex)
  /\ moved' = MovedInstance(out[t], _tjob_running)
  /\ Return(t)
  /\ UNCHANGED <<instVars, repoVars, exc, histVars>>

\* _tjob_running(mll._tjob_running.load()), and the constructor returns
MoveFlag(t) ==
  /\ pc[t] = "mv_flag"
  /\ moved' = MovedInstance(out[t], _tjob_running)
  /\ Return(t)
  /\ UNCHANGED <<instVars, repoVars, exc, histVars>>

\* ------------------------------------------------------------ specifications
NextMeas ==
  \E t \in Threads :
    \/ \E m \in Names, l \in Values : AddMeasCall(t, m, l)
    \/ AddMeasLock(t)
    \/ AddMeasWrite(t)
    \/ \E m \in Names : GetMeasCall(t, m)
    \/ GetMeasLock(t)
    \/ GetMeasReturn(t)
    \/ CollectMeasCall(t)
    \/ CollectMeasLock(t)
    \/ CollectMeasLoop(t)
    \/ CollectMeasReturn(t)

\* the current-measures store under concurrent callers
SpecMeas == Init /\ [][NextMeas]_vars

NextHist ==
  \E t \in Threads :
    \/ \E m \in Names, l \in Values : AddMeasPerIterCall(t, m, l)
    \/ AddMeasPerIterLock(t)
    \/ AddMeasPerIterPush(t)
    \/ ClearAllCall(t)
    \/ ClearAllLock(t)
    \/ ClearAllClear(t)
    \/ CollectHistCall(t)
    \/ CollectHistLock(t)
    \/ CollectHistLoop(t)
    \/ CollectHistReturn(t)

\* the history store under concurrent callers
SpecHist == Init /\ [][NextHist]_vars

NextClear ==
  \E t \in Threads :
    \/ ClearFullCall(t)
    \/ ClearFullClear(t)
    \/ ClearFullCheck(t)
    \/ ClearFullReturn(t)

\* clear_full over any repository
SpecClear == InitClear /\ [][NextClear]_vars

NextTrain ==
  \E t \in Threads :
    \/ TrainCall(t)
    \/ \E o \in TrainOutcomes : TrainReturn(t, o)
    \/ PredictCall(t)
    \/ PredictReturn(t)
    \/ PredictDenied(t)

\* train and predict calls on an instance a backend constructed
SpecTrain == InitBackend /\ [][NextTrain]_vars

NextMove ==
  \E t \in Threads :
    \/ \E m \in Names, l \in Values : AddMeasCall(t, m, l)
    \/ AddMeasLock(t)
    \/ AddMeasWrite(t)
    \/ \E m \in Names : GetMeasCall(t, m)
    \/ GetMeasLock(t)
    \/ GetMeasReturn(t)
    \/ MoveCall(t)
    \/ MoveMeas(t)
    \/ MoveFlag(t)

\* the move constructor beside writers and readers of current measures
SpecMove == Init /\ [][NextMove]_vars

NextMoveHist ==
  \E t \in Threads :
    \/ \E m \in Names, l \in Values : AddMeasPerIterCall(t, m, l)
    \/ AddMeasPerIterLock(t)
    \/ AddMeasPerIterPush(t)
    \/ MoveCall(t)
    \/ MoveMeas(t)
    \/ MoveFlag(t)

\* the move constructor beside writers of the measures history
SpecMoveHist == Init /\ [][NextMoveHist]_vars

\* a single measure, for the specifications in which the values play no part
OneName == {"loss"}
OneValue == {1}

NextBoth ==
  \E t \in Threads :
    \/ \E m \in OneName, l \in OneValue : AddMeasCall(t, m, l)
    \/ AddMeasLock(t)
    \/ AddMeasWrite(t)
    \/ \E m \in OneName : GetMeasCall(t, m)
    \/ GetMeasLock(t)
    \/ GetMeasReturn(t)
    \/ CollectMeasCall(t)
    \/ CollectMeasLock(t)
    \/ CollectMeasLoop(t)
    \/ CollectMeasReturn(t)
    \/ \E m \in OneName, l \in OneValue : AddMeasPerIterCall(t, m, l)
    \/ AddMeasPerIterLock(t)
    \/ AddMeasPerIterPush(t)
    \/ ClearAllCall(t)
    \/ ClearAllLock(t)
    \/ ClearAllClear(t)
    \/ CollectHistCall(t)
    \/ CollectHistLock(t)
    \/ CollectHistLoop(t)
    \/ CollectHistReturn(t)

\* the six measurement operations, on both stores, under concurrent callers
SpecBoth == Init /\ [][NextBoth]_vars

\* the next step of thread t inside a current-measures operation
MeasStep(t) ==
  \/ AddMeasLock(t) \/ AddMeasWrite(t)
  \/ GetMeasLock(t) \/ GetMeasReturn(t)
  \/ CollectMeasLock(t) \/ CollectMeasLoop(t) \/ CollectMeasReturn(t)

\* the next step of thread t inside a history operation
HistStep(t) ==
  \/ AddMeasPerIterLock(t) \/ AddMeasPerIterPush(t)
  \/ ClearAllLock(t) \/ ClearAllClear(t)
  \/ CollectHistLock(t) \/ CollectHistLoop(t) \/ CollectHistReturn(t)

\* the next step of thread t inside the measurement operation it has called
ThreadStep(t) == MeasStep(t) \/ HistStep(t)

\* the six measurement operations when the scheduler lets every thread that can
\* take a step take one; std::mutex promises no order among the waiting threads
SpecBothFair ==
  Init /\ [][NextBoth]_vars /\ \A t \in Threads : WF_vars(ThreadStep(t))

NextFlag ==
  \E t \in Threads :
    \/ \E m \in OneName, l \in OneValue : AddMeasCall(t, m, l)
    \/ AddMeasLock(t)
    \/ AddMeasWrite(t)
    \/ ClearAllCall(t)
    \/ ClearAllLock(t)
    \/ ClearAllClear(t)
    \/ TrainCall(t)
    \/ \E o \in TrainOutcomes : TrainReturn(t, o)
    \/ MoveCall(t)
    \/ MoveMeas(t)
    \/ MoveFlag(t)

\* writers and a reader of the training flag beside holders of the two mutexes
SpecFlag == Init /\ [][NextFlag]_vars

\* the thread that calls the operations one after another, and the thread that
\* runs the training job beside it
Caller == 1
Trainer == 2

NextSerial ==
  \/ \E t \in {Caller} :
       \/ \E m \in Names, l \in Values : AddMeasCall(t, m, l)
       \/ AddMeasLock(t)
       \/ AddMeasWrite(t)
       \/ \E m \in Names : GetMeasCall(t, m)
       \/ GetMeasLock(t)
       \/ GetMeasReturn(t)
       \/ CollectMeasCall(t)
       \/ CollectMeasLock(t)
       \/ CollectMeasLoop(t)
       \/ CollectMeasReturn(t)
       \/ \E m \in OneName, l \in OneValue : AddMeasPerIterCall(t, m, l)
       \/ AddMeasPerIterLock(t)
       \/ AddMeasPerIterPush(t)
       \/ ClearAllCall(t)
       \/ ClearAllLock(t)
       \/ ClearAllClear(t)
       \/ CollectHistCall(t)
       \/ CollectHistLock(t)
       \/ CollectHistLoop(t)
       \/ CollectHistReturn(t)
       \/ ClearFullCall(t)
       \/ ClearFullClear(t)
       \/ ClearFullCheck(t)
       \/ ClearFullReturn(t)
  \/ \E t \in {Trainer} :
       \/ TrainCall(t)
       \/ \E o \in TrainOutcomes : TrainReturn(t, o)

\* the measurement operations and clear_full, called one after another by one
\* thread while another thread trains
SpecSerial == InitSerial /\ [][NextSerial]_vars

\* ------------------------------------------------------------------ claims
\* the values appended to name n, in call order, among the log entries es
ValuesFor(es, n) ==
  LET sel == SelectSeq(es, LAMBDA e : e[1] = n)
  IN [i \in 1..Len(sel) |-> sel[i][2]]

\* the add_meas_per_iter calls of thread t, since the last clear, that have stored their value
DoneLog(t) ==
  IF Pending(t) THEN SubSeq(applog[t], 1, Len(applog[t]) - 1) ELSE applog[t]

DoneCount == LET RECURSIVE Sum(_)
                 Sum(S) == IF S = {} THEN 0
                           ELSE LET t == CHOOSE x \in S : TRUE
                                IN Len(DoneLog(t)) + Sum(S \ {t})
             IN Sum(Threads)

\* s is an interleaving of the sequences f[t] that keeps the order of each
RECURSIVE IsMerge(_, _)
IsMerge(s, f) ==
  IF s = <<>> THEN \A t \in DOMAIN f : f[t] = <<>>
  ELSE \E t \in DOMAIN f :
         /\ f[t] # <<>>
         /\ Head(f[t]) = Head(s)
         /\ IsMerge(Tail(s), [f EXCEPT ![t] = Tail(@)])

IsPrefix(s, r) == Len(s) <= Len(r) /\ SubSeq(r, 1, Len(s)) = s

\* the sequence stored for name n, empty when the name is absent
HistOf(n) == IF n \in DOMAIN _meas_per_iter THEN _meas_per_iter[n] ELSE <<>>

\* C1: get_meas(name) returns the value of the last add_meas(name, .) that took
\* the current-measures lock (NaN when there was none), the value it returns is
\* one of the values written for that name, and with the lock free the store
\* holds, for each name, the value of the last add_meas that took the lock.
C1_GetReturnsLastSet ==
  /\ \A t \in Threads :
       pc[t] = "gm_ret" =>
         /\ ret[t] = last_set[meas_arg[t]]
         /\ ret[t] # NaN => ret[t] \in written[meas_arg[t]]
  /\ _meas_mutex = Free =>
       \A n \in Names :
         IF n \in DOMAIN _meas THEN _meas[n] = last_set[n] ELSE last_set[n] = NaN

\* a get_meas is about to return the second of two different values written for
\* its name, while another thread waits for the lock with a further write
C1_Witness ==
  \E t, u \in Threads :
    /\ pc[t] = "gm_ret"
    /\ ret[t] # NaN
    /\ Cardinality(written[meas_arg[t]]) >= 2
    /\ pc[u] = "am_lock"
    /\ meas_arg[u] = meas_arg[t]
    /\ l_arg[u] # ret[t]

\* C2: with no clear_all in between, the sequence stored for a name is an
\* interleaving of the threads' completed add_meas_per_iter calls for that name:
\* every appended value exactly once, each thread's values in its call order.
C2_HistoryIsMergeOfAppends ==
  \A n \in Names :
    IsMerge(HistOf(n), [t \in Threads |-> ValuesFor(DoneLog(t), n)])

\* two threads have both appended to the same name, three values in all
C2_Witness ==
  \E n \in Names, t, u \in Threads :
    /\ t # u
    /\ Len(HistOf(n)) >= 3
    /\ ValuesFor(DoneLog(t), n) # <<>>
    /\ ValuesFor(DoneLog(u), n) # <<>>

\* a step in which clear_all_meas_per_iter empties the map
ClearStep == \E t \in Threads : pc[t] = "cl_clear" /\ pc'[t] = "idle"

\* the history of every name present is kept as a prefix by the step
HistoryGrows ==
  \A n \in DOMAIN _meas_per_iter :
    /\ n \in DOMAIN _meas_per_iter'
    /\ IsPrefix(_meas_per_iter[n], _meas_per_iter'[n])

\* C7 as stated: no step ever shortens or reorders the sequence of a name.
C7_NeverShrinks == [][HistoryGrows]_vars

\* C7, amended: every step other than clear_all_meas_per_iter keeps the sequence
\* of each name as a prefix of the later one; clear_all_meas_per_iter empties
\* the whole history.
C7_GrowsUntilCleared ==
  [][IF ClearStep THEN _meas_per_iter' = EmptyMap ELSE HistoryGrows]_vars

\* after a clear_all, a name has again collected two values
C7_Witness ==
  /\ cleared
  /\ \E n \in Names : Len(HistOf(n)) >= 2

\* the one-entry APIData {key: val}
Single(key, val) == [x \in {key} |-> val]

\* C10: a collect_measures_history that runs after a clear_all with no append
\* stored in between builds an empty meas_hist; with exactly one append (n, v)
\* stored in between it builds exactly one entry, n_hist, holding <<v>>.
C10_CollectAfterClear ==
  \A t \in Threads :
    (pc[t] = "ch_ret" /\ cleared) =>
      /\ DoneCount = 0 => out[t] = EmptyMap
      /\ DoneCount = 1 =>
           \E u \in Threads :
             /\ DoneLog(u) # <<>>
             /\ out[t] = Single(HistKey(DoneLog(u)[1][1]), <<DoneLog(u)[1][2]>>)

\* a collect after clear_all and one stored append has built its one entry, while
\* a further append waits for the lock
C10_Witness ==
  \E t, u \in Threads :
    /\ pc[t] = "ch_ret"
    /\ cleared
    /\ DoneCount = 1
    /\ DOMAIN out[t] # {}
    /\ pc[u] = "ap_lock"

\* some train invocation is in flight on the instance
TrainInFlight == \E t \in Threads : pc[t] = "tr_run"

Contains(s, p) == \E i \in 1..Len(s) : s[i] = p

\* C4: clear_full turns the code of clear_directory into exactly one outcome:
\* positive, MLLibBadParamException; negative, MLLibInternalException; zero, a
\* normal return; both messages hold the repository path.
C4_ClearFullOutcomes ==
  \A t \in Threads :
    pc[t] = "cf_done" =>
      /\ exc[t].type \in {"none", "MLLibBadParamException", "MLLibInternalException"}
      /\ err[t] > 0 <=> exc[t].type = "MLLibBadParamException"
      /\ err[t] < 0 <=> exc[t].type = "MLLibInternalException"
      /\ err[t] = 0 <=> exc[t] = NoExc
      /\ exc[t] # NoExc => Contains(exc[t].what, _mlmodel_repo)

\* clear_full has thrown the internal error for a negative code other than -1
C4_Witness ==
  \E t \in Threads :
    /\ pc[t] = "cf_done"
    /\ err[t] < -1
    /\ exc[t].type = "MLLibInternalException"
    /\ repo_files # {}

\* C5: when clear_full ends without error the repository directory still opens
\* and holds no file; on a repository that cannot be opened it throws
\* MLLibBadParamException and the files are those present when it was called.
C5_ClearFullEmptiesRepo ==
  \A t \in Threads :
    pc[t] = "cf_done" =>
      /\ exc[t] = NoExc => (repo_dir /\ repo_files = {})
      /\ ~repo_dir => /\ exc[t].type = "MLLibBadParamException"
                      /\ repo_files = files_at_call[t]

\* clear_full ends without error on a repository that held a, b and c
C5_Witness ==
  \E t \in Threads :
    /\ pc[t] = "cf_done"
    /\ exc[t] = NoExc
    /\ files_at_call[t] = Files
    /\ repo_files = {}

\* a step in which the move constructor returns
MoveStep == \E t \in Threads : pc[t] = "mv_flag" /\ pc'[t] = "idle"

\* C6: the instance the move constructor builds has the current measures, the
\* measure history, the training flag, the capability flags and the library
\* name of the source instance.
C6_MoveTransfersState == [][MoveStep => moved' = Source]_vars

\* thread t is between its first and its last access to current measures
InMeas(t) == pc[t] \in {"am_write", "gm_ret", "cm_loop", "cm_ret", "mv_meas"}

\* thread t is between its first and its last access to the measures history
InHist(t) == pc[t] \in {"ap_push", "cl_clear", "ch_loop", "ch_ret"}

\* C8: a thread inside current measures holds the current-measures lock, a
\* thread inside the measures history holds the history lock, for every member
\* function and the move constructor; so at most one thread is inside each.
C8_StoresAccessedUnderLock ==
  /\ \A t \in Threads : InMeas(t) => _meas_mutex = t
  /\ \A t \in Threads : InHist(t) => _meas_per_iter_mutex = t
  /\ Cardinality({t \in Threads : InMeas(t)}) <= 1
  /\ Cardinality({t \in Threads : InHist(t)}) <= 1

LatestSet == [n \in {x \in Names : last_set[x] # NaN} |-> last_set[n]]

\* C11: what collect_measures hands to its caller is the one field "measure"
\* holding exactly one entry per name that has been set, each with the latest
\* value set for that name; a name that was never set has no entry.
C11_CollectYieldsLatestPerName ==
  \A t \in Threads :
    pc[t] = "cm_ret" =>
      /\ ad[t] = Single("measure", LatestSet)
      /\ Cardinality(DOMAIN ad[t]["measure"])
           = Cardinality({n \in Names : last_set[n] # NaN})
      /\ \A n \in Names : written[n] = {} => n \notin DOMAIN ad[t]["measure"]

\* a collect has built two entries after both names were set, one of them with
\* two different values
C11_Witness ==
  \E t \in Threads :
    /\ pc[t] = "cm_ret"
    /\ DOMAIN ad[t]["measure"] = Names
    /\ \E n \in Names : Cardinality(written[n]) >= 2

\* a step of thread t inside get_meas, its call and its return included
GetMeasStep(t) ==
  /\ pc'[t] # pc[t]
  /\ pc[t] \in {"gm_lock", "gm_ret"} \/ pc'[t] = "gm_lock"

\* C12: a get_meas on a name no add_meas has set returns NaN and raises nothing,
\* the name is not a key of current measures when it returns, and no step of a
\* get_meas changes current measures.
C12_GetOfUnsetName ==
  /\ [](\A t \in Threads :
         (pc[t] = "gm_ret" /\ last_set[meas_arg[t]] = NaN) =>
           /\ ret[t] = NaN
           /\ exc[t] = NoExc
           /\ meas_arg[t] \notin DOMAIN _meas)
  /\ [][\A t \in Threads : GetMeasStep(t) => _meas' = _meas]_vars

\* a get_meas answers NaN for a name never passed to add_meas while the other
\* name is stored
C12_Witness ==
  \E t \in Threads :
    /\ pc[t] = "gm_ret"
    /\ written[meas_arg[t]] = {}
    /\ ret[t] = NaN
    /\ DOMAIN _meas = Names \ {meas_arg[t]}

\* thread t waits for the current-measures lock, or for the history lock
WaitsMeas(t) == pc[t] \in {"am_lock", "gm_lock", "cm_lock"}
WaitsHist(t) == pc[t] \in {"ap_lock", "cl_lock", "ch_lock"}

\* C13: a thread inside set, get or collect on current measures can take its
\* next step whenever the current-measures lock is free or its own, whoever
\* holds the history lock; a thread inside append, clear_all or history collect
\* can take its next step whenever the history lock is free or its own, whoever
\* holds the current-measures lock; no thread holds both locks, and a thread
\* that waits for one lock holds none.
C13_IndependentLocks ==
  \A t \in Threads :
    /\ (WaitsMeas(t) \/ InMeas(t)) /\ _meas_mutex \in {Free, t} => ENABLED MeasStep(t)
    /\ (WaitsHist(t) \/ InHist(t)) /\ _meas_per_iter_mutex \in {Free, t} => ENABLED HistStep(t)
    /\ ~(_meas_mutex = t /\ _meas_per_iter_mutex = t)
    /\ (WaitsMeas(t) \/ WaitsHist(t)) => (_meas_mutex # t /\ _meas_per_iter_mutex # t)

\* one thread is inside history collect with the history lock while another
\* waits for the current-measures lock, which is free
C13_Witness ==
  \E t, u \in Threads :
    /\ pc[u] = "ch_loop"
    /\ _meas_per_iter_mutex = u
    /\ DOMAIN _meas_per_iter # {}
    /\ pc[t] = "am_lock"
    /\ _meas_mutex = Free

\* a step in which thread t starts or ends a train invocation
TrainStep(t) ==
  \/ pc[t] = "idle" /\ pc'[t] = "tr_run"
  \/ pc[t] = "tr_run" /\ pc'[t] = "idle"

C15_EveryOperationReturns ==
  \A t \in Threads : ~Idle(t) ~> Idle(t)

\* C15, amended: each operation holds exactly the one lock of its store from its
\* first access to its return and none once it has returned; while an operation
\* is in flight some thread can take a step (no deadlock); a lock leaves its
\* holder only when the holder returns, and a lock that is held is eventually
\* free: every operation that has taken its lock eventually returns, and the
\* lock an operation waits for is free again and again.
C15_LockHoldersReturn ==
  /\ [](\A t \in Threads :
         /\ InMeas(t) <=> _meas_mutex = t
         /\ InHist(t) <=> _meas_per_iter_mutex = t
         /\ ~(InMeas(t) /\ InHist(t)))
  /\ []((\E t \in Threads : ~Idle(t)) => \E u \in Threads : ENABLED ThreadStep(u))
  /\ [][\A t \in Threads :
          /\ (_meas_mutex = t /\ _meas_mutex' # t) => (_meas_mutex' = Free /\ Idle(t)')
          /\ (_meas_per_iter_mutex = t /\ _meas_per_iter_mutex' # t) =>
               (_meas_per_iter_mutex' = Free /\ Idle(t)')]_vars
  /\ _meas_mutex # Free ~> _meas_mutex = Free
  /\ _meas_per_iter_mutex # Free ~> _meas_per_iter_mutex = Free

\* a set waits for the current-measures lock that a collect holds, while the
\* history lock is free
C15_Witness ==
  \E t, u \in Threads :
    /\ pc[t] = "am_lock"
    /\ pc[u] = "cm_loop"
    /\ _meas_mutex = u
    /\ _meas_per_iter_mutex = Free
    /\ DOMAIN _meas_per_iter # {}

\* a step of thread t inside collect_measures_history, its call and its return
\* included
CollectHistStep(t) ==
  /\ pc'[t] # pc[t]
  /\ pc[t] \in {"ch_lock", "ch_loop", "ch_ret"} \/ pc'[t] = "ch_lock"

\* the history as collect_measures_history is to report it: per name present,
\* the name followed by _hist, holding the name's vector
HistReport ==
  LET keys == {n \o "_hist" : n \in DOMAIN _meas_per_iter}
  IN [k \in keys |->
        _meas_per_iter[CHOOSE n \in DOMAIN _meas_per_iter : n \o "_hist" = k]]

\* C16: what collect_measures_history hands to its caller is the one field
\* "measure_hist", holding exactly one entry per name present in the history,
\* keyed by the name followed by _hist and holding the name's vector as stored;
\* no step of it changes the history.
C16_HistoryCollect ==
  /\ [](\A t \in Threads :
         pc[t] = "ch_ret" =>
           /\ ad[t] = Single("measure_hist", HistReport)
           /\ Cardinality(DOMAIN ad[t]["measure_hist"])
                = Cardinality(DOMAIN _meas_per_iter))
  /\ [][\A t \in Threads :
          CollectHistStep(t) => _meas_per_iter' = _meas_per_iter]_vars

\* a history collect has reported both names, one of them with two different
\* values in the order they were appended
C16_Witness ==
  \E t \in Threads :
    /\ pc[t] = "ch_ret"
    /\ DOMAIN _meas_per_iter = Names
    /\ \E n \in Names :
         /\ Len(_meas_per_iter[n]) = 2
         /\ _meas_per_iter[n][1] # _meas_per_iter[n][2]
         /\ ad[t]["measure_hist"][n \o "_hist"] = _meas_per_iter[n]

\* C17: no step of any operation takes a name out of current measures, and a
\* name whose add_meas has stored its value is a key of current measures from
\* then on, after clear_all_meas_per_iter and after clear_full as well.
C17_NamesOnlyGrow ==
  /\ [][DOMAIN _meas \subseteq DOMAIN _meas']_vars
  /\ [](\A n \in Names :
         last_set[n] # NaN =>
           \/ n \in DOMAIN _meas
           \/ \E t \in Threads : pc[t] = "am_write" /\ meas_arg[t] = n /\ hit[t] = End)

\* both names are still stored after a clear_all of the history and a clear_full
\* have returned
C17_Witness ==
  /\ DOMAIN _meas = Names
  /\ cleared
  /\ \E t \in Threads : files_at_call[t] = Files
  /\ \A t \in Threads : Idle(t)

\* the positions inside the operations on current measures, on the history,
\* and inside clear_full
MeasLabels == {"am_lock", "am_write", "gm_lock", "gm_ret", "cm_lock", "cm_loop", "cm_ret"}
HistLabels == {"ap_lock", "ap_push", "cl_lock", "cl_clear", "ch_lock", "ch_loop", "ch_ret"}
ClearFullLabels == {"cf_clear", "cf_check", "cf_done"}

\* a step of thread t that belongs to an operation with the positions L: its
\* call, a step inside it, or its return
OpStep(t, L) ==
  /\ pc[t] \in L \/ pc'[t] \in L
  /\ pc'[t] # pc[t] \/ iter'[t] # iter[t]

\* C18: every step of add_meas, get_meas and collect_measures leaves the
\* history and the training flag as they are; every step of add_meas_per_iter,
\* clear_all_meas_per_iter and collect_measures_history leaves current measures
\* and the flag as they are; every step of clear_full, whether it ends normally
\* or throws, leaves both stores, the flag and the capability flags as they are.
C18_DisjointEffects ==
  [][\A t \in Threads :
       /\ OpStep(t, MeasLabels) => UNCHANGED <<_meas_per_iter, _tjob_running>>
       /\ OpStep(t, HistLabels) => UNCHANGED <<_meas, _tjob_running>>
       /\ OpStep(t, ClearFullLabels) =>
            UNCHANGED <<_meas, _meas_per_iter, _tjob_running,
                        _has_train, _has_predict, _online>>]_vars

\* clear_full has thrown while both stores hold a measure and training runs
C18_Witness ==
  \E t \in Threads :
    /\ pc[t] = "cf_done"
    /\ exc[t].type = "MLLibInternalException"
    /\ DOMAIN _meas # {}
    /\ DOMAIN _meas_per_iter # {}
    /\ _tjob_running

\* current measures m after add_meas(k, v) has run on it alone
AfterSet(m, k, v) == AddMeasStore(m, Find(m, k), k, v)

\* C19: on every content current measures can have, for every name and value,
\* add_meas(name, v) run twice in a row leaves what one run leaves, whether the
\* name was present or not; and the store of an add_meas that follows an
\* add_meas of the same name and value leaves current measures as they are.
C19_SetIdempotent ==
  /\ [](\A k \in Names, v \in Values :
         AfterSet(AfterSet(_meas, k, v), k, v) = AfterSet(_meas, k, v))
  /\ [][\A t \in Threads :
          (/\ pc[t] = "am_write"
           /\ pc'[t] = "idle"
           /\ meas_arg[t] \in DOMAIN _meas
           /\ _meas[meas_arg[t]] = l_arg[t]) => _meas' = _meas]_vars

\* an add_meas is about to store the value the name already holds, after the
\* name held the other value, while the other name is absent
C19_Witness ==
  \E t \in Threads :
    /\ pc[t] = "am_write"
    /\ meas_arg[t] \in DOMAIN _meas
    /\ _meas[meas_arg[t]] = l_arg[t]
    /\ written[meas_arg[t]] = Values
    /\ DOMAIN _meas = {meas_arg[t]}

\* no add_meas has been called yet; no add_meas_per_iter and no clear either
NoSetYet == \A n \in Names : written[n] = {}
NoAppendYet == ~cleared /\ \A t \in Threads : applog[t] = <<>>

\* C20: on an instance built by MLLib(const TMLModel&) and used through the
\* measurement operations only, has_train is false, has_predict is true, online
\* is false and the training flag is false; until the first add_meas current
\* measures are empty, get_meas returns NaN and collect_measures reports no
\* entry; until the first add_meas_per_iter the history is empty and
\* collect_measures_history reports no entry.
C20_FreshInstance ==
  /\ _has_train = FALSE
  /\ _has_predict = TRUE
  /\ _online = FALSE
  /\ _tjob_running = FALSE
  /\ NoSetYet =>
       /\ _meas = EmptyMap
       /\ \A t \in Threads :
            /\ pc[t] = "gm_ret" => ret[t] = NaN
            /\ pc[t] = "cm_ret" => ad[t] = Single("measure", EmptyMap)
  /\ NoAppendYet =>
       /\ _meas_per_iter = EmptyMap
       /\ \A t \in Threads :
            pc[t] = "ch_ret" => ad[t] = Single("measure_hist", EmptyMap)

\* before any add_meas and any add_meas_per_iter, a get_meas is about to return
\* while a history collect has built its report
C20_Witness ==
  \E t, u \in Threads :
    /\ NoSetYet
    /\ NoAppendYet
    /\ pc[t] = "gm_ret"
    /\ ret[t] = NaN
    /\ pc[u] = "ch_ret"

====
